---- MODULE Spec2Model ----
(***************************************************************************)
(* Model of crates/kreuzberg-node/src/worker_pool.rs: the WorkerPool       *)
(* admission gate.  A pool is a fixed `size` and a shared atomic counter   *)
(* `active_workers` (AtomicUsize).  Every method performs exactly one      *)
(* atomic access of the counter (load, fetch_add, fetch_sub), so a method  *)
(* call by a caller is one step; wait_for_completion is a loop of loads    *)
(* separated by sleeps and is modelled step by step.                       *)
(*                                                                         *)
(* All accesses are to one atomic location; its modification order is      *)
(* total and every read-modify-write acts on the latest value, so the      *)
(* counter is modelled as one shared cell.                                 *)
(***************************************************************************)
EXTENDS Integers, FiniteSets, TLC

(* ------------------------------ bounds -------------------------------- *)

\* Width of the counter word.  usize is 64 bits on the build targets; the
\* model keeps the wrapping arithmetic at a width small enough to explore.
WordBits == 3

\* Largest size passed to new().
MaxSize == 2

\* Number of concurrent callers sharing the pool.
NumCallers == 2

\* Caps on the number of completed increment_active / decrement_active calls.
\* MaxAdmits stays below 2^WordBits: 2^64 completed calls are out of reach of
\* a real run, so the counter never wraps upwards past its maximum by
\* increments alone.
MaxAdmits == 3
MaxReleases == 3

Modulus == 2 ^ WordBits
MaxWord == Modulus - 1
Callers == 1 .. NumCallers

(* ------------------------- the WorkerPool type ------------------------ *)

\* The value a failed new() leaves the caller with: no pool.
NoPool == [none |-> TRUE]

\* AtomicUsize::fetch_add: wrapping addition on the word.
fetch_add(v, n) == (v + n) % Modulus

\* Mutant of fetch_sub: a signed counter, which goes below zero.
fetch_sub_signed(v, n) == v - n

\* AtomicUsize::fetch_sub: wrapping subtraction on the word.
fetch_sub(v, n) == (v + Modulus - n) % Modulus

\* Mutant of new: the size == 0 check is missing.
new_unchecked(sz) ==
    [status |-> "Ok", pool |-> [size |-> sz, active_workers |-> 0]]

\* WorkerPool::new
new(sz) ==
    IF sz = 0
    THEN [status |-> "InvalidArg", pool |-> NoPool]
    ELSE [status |-> "Ok", pool |-> [size |-> sz, active_workers |-> 0]]

\* Mutant of size: the getter returns the wrong field.
size_returns_active(self) == self.active_workers

\* WorkerPool::size
size(self) == self.size

\* WorkerPool::active_workers
active_workers(self) == self.active_workers

\* Mutant of can_accept_work: off by one, <= for <.
can_accept_work_le(self) == self.active_workers <= self.size

\* WorkerPool::can_accept_work
can_accept_work(self) == self.active_workers < self.size

\* Mutant of can_accept_work_call: the check reserves the slot it reports.
can_accept_work_reserving(self) ==
    [ret |-> can_accept_work(self),
     after |-> IF can_accept_work(self)
               THEN [self EXCEPT !.active_workers = fetch_add(@, 1)]
               ELSE self]

\* A call of can_accept_work(&self): its result and the pool after it.
can_accept_work_call(self) ==
    [ret |-> can_accept_work(self), after |-> self]

\* Mutant of increment_active: the increment is refused when the pool is full.
increment_active_checked(self) ==
    IF self.active_workers < self.size
    THEN [self EXCEPT !.active_workers = fetch_add(@, 1)]
    ELSE self

\* WorkerPool::increment_active
increment_active(self) ==
    [self EXCEPT !.active_workers = fetch_add(@, 1)]

\* Mutant of decrement_active: a saturating decrement, which stops at 0.
decrement_active_saturating(self) ==
    IF self.active_workers = 0
    THEN self
    ELSE [self EXCEPT !.active_workers = fetch_sub(@, 1)]

\* WorkerPool::decrement_active
decrement_active(self) ==
    [self EXCEPT !.active_workers = fetch_sub(@, 1)]

\* Mutant of clone: a deep copy, whose counter is a cell of its own.
clone_deep(self) ==
    [size |-> self.size, shared |-> FALSE, own |-> self.active_workers]

\* #[derive(Clone)] on WorkerPool: size is copied and the Arc is cloned, so the
\* new handle points to the same counter cell (`shared`); `own` is the cell
\* of a handle that does not share.
clone(self) ==
    [size |-> self.size, shared |-> TRUE, own |-> 0]

\* Mutants of wait_loop_cond: the wait ends with one worker left; the wait
\* never ends.
wait_loop_cond_gt1(loaded) == loaded > 1
wait_loop_cond_ge0(loaded) == loaded >= 0

\* The loop condition of WorkerPool::wait_for_completion, on the value loaded.
wait_loop_cond(loaded) == loaded > 0

\* Mutant of occupies_thread: a blocking sleep, which keeps the thread.
occupies_thread_blocking(w) == w = "sleep"

\* Whether a wait_for_completion call at position w occupies the execution
\* thread its callers share: `sleep(..).await` yields, so it never does.
occupies_thread(w) == FALSE

\* Mutant of wait_entry: a loop that sleeps before its first test.
wait_entry_sleep_first == "sleep"

\* Where a wait_for_completion call starts: `while` tests before it sleeps.
wait_entry == "check"

(* ------------------------------- state -------------------------------- *)

VARIABLES
    pool,       \* the WorkerPool shared by all callers, or NoPool
    built,      \* the last new() call: its argument, its result status, and
                \* whether some call so far was rejected
    admits,     \* history: completed increment_active calls, over all callers
    releases,   \* history: completed decrement_active calls, over all callers
    obs,        \* per caller: the last can_accept_work result and the counter it read
    pc,         \* per caller: position in the check-then-admit protocol
    wpc,        \* the wait_for_completion call: idle, check, sleep, exit, done
    wload,      \* the value the waiter's last load returned
    wzero,      \* history: the counter was 0 at some instant within the call
    wbecame,    \* history: the counter became 0 during the call, since the
                \* waiter's last load that kept it waiting
    wadmit,     \* history: increment_active completed after the call started
    wslept,     \* history: the call has started a sleep
    clones,     \* per caller: the handle it got by cloning the pool, or NoPool
    used,       \* history: the callers whose clone carried an increment or decrement
    last        \* the last query made through the query interface and its result

vars == <<pool, built, admits, releases, obs, pc,
          wpc, wload, wzero, wbecame, wadmit, wslept, clones, used, last>>

waiter == <<wpc, wload, wzero, wbecame, wadmit, wslept>>

\* The state only the clone and query interfaces touch.
extra == <<clones, used, last>>

Built == pool # NoPool
Active == pool.active_workers

Init ==
    /\ pool = NoPool
    /\ built = [arg |-> 0, status |-> "none", rejected |-> FALSE]
    /\ admits = 0
    /\ releases = 0
    /\ obs = [p \in Callers |-> [valid |-> FALSE, ret |-> FALSE, active |-> 0]]
    /\ pc = [p \in Callers |-> "idle"]
    /\ wpc = "idle"
    /\ wload = 0
    /\ wzero = FALSE
    /\ wbecame = FALSE
    /\ wadmit = FALSE
    /\ wslept = FALSE
    /\ clones = [p \in Callers |-> NoPool]
    /\ used = {}
    /\ last = [op |-> "none", by |-> 0, ret |-> 0, ok |-> TRUE]

(* ------------------------------ actions ------------------------------- *)

\* WorkerPool::new(s).  A failed call leaves no pool and may be retried.
Construct(s) ==
    /\ pool = NoPool
    /\ built' = [arg |-> s, status |-> new(s).status,
                  rejected |-> (built.rejected \/ new(s).status # "Ok")]
    /\ pool' = new(s).pool
    /\ UNCHANGED <<admits, releases, obs, pc, waiter, extra>>

\* History kept for the waiter when a caller's step leaves the counter at
\* `np.active_workers`; isAdmit tells an increment from a decrement.
TrackCounter(np, isAdmit) ==
    /\ wzero' = (wzero \/ (wpc \in {"check", "sleep", "exit"} /\ np.active_workers = 0))
    /\ wbecame' = (wbecame \/ (wpc \in {"check", "sleep"} /\ np.active_workers = 0))
    /\ wadmit' = (wadmit \/ (isAdmit /\ wpc # "idle"))
    /\ UNCHANGED <<wpc, wload, wslept>>

\* Caller p calls can_accept_work(): one load and a comparison with size.
DoCanAdmit(p) ==
    /\ Built
    /\ obs' = [obs EXCEPT ![p] = [valid |-> TRUE,
                                  ret |-> can_accept_work(pool),
                                  active |-> Active]]
    /\ UNCHANGED <<pool, built, admits, releases, waiter>>

\* Caller p calls increment_active(): one fetch_add.
DoAdmit(p) ==
    /\ Built
    /\ admits < MaxAdmits
    /\ pool' = increment_active(pool)
    /\ admits' = admits + 1
    /\ TrackCounter(increment_active(pool), TRUE)
    /\ UNCHANGED <<built, releases, obs>>

\* Caller p calls decrement_active(): one fetch_sub.
DoRelease(p) ==
    /\ Built
    /\ releases < MaxReleases
    /\ pool' = decrement_active(pool)
    /\ releases' = releases + 1
    /\ TrackCounter(decrement_active(pool), FALSE)
    /\ UNCHANGED <<built, admits, obs>>

\* Unconstrained callers: any method at any time, in any order.
CanAdmit(p) == DoCanAdmit(p) /\ UNCHANGED <<pc, extra>>
Admit(p) == DoAdmit(p) /\ UNCHANGED <<pc, extra>>
Release(p) == DoRelease(p) /\ UNCHANGED <<pc, extra>>

\* wait_for_completion is called: the future starts at the loop head.
DrainCall ==
    /\ Built
    /\ wpc = "idle"
    /\ wpc' = wait_entry
    /\ wzero' = (Active = 0)
    /\ wbecame' = FALSE
    /\ wadmit' = FALSE
    /\ wslept' = (wait_entry = "sleep")
    /\ UNCHANGED <<pool, built, admits, releases, obs, pc, wload, extra>>

\* The loop head: load the counter; leave the loop when it is not > 0.
DrainPoll ==
    /\ wpc = "check"
    /\ wload' = active_workers(pool)
    /\ wpc' = IF wait_loop_cond(active_workers(pool)) THEN "sleep" ELSE "exit"
    /\ wzero' = (wzero \/ Active = 0)
    /\ wbecame' = (wbecame /\ ~wait_loop_cond(active_workers(pool)))
    /\ wslept' = (wslept \/ wait_loop_cond(active_workers(pool)))
    /\ UNCHANGED <<pool, built, admits, releases, obs, pc, wadmit, extra>>

\* tokio::time::sleep(10 ms) elapses: back to the loop head.
DrainWake ==
    /\ wpc = "sleep"
    /\ wpc' = "check"
    /\ UNCHANGED <<pool, built, admits, releases, obs, pc, wload, wzero, wbecame,
                   wadmit, wslept, extra>>

\* The loop has been left: the call returns to its caller.
DrainReturn ==
    /\ wpc = "exit"
    /\ wpc' = "done"
    /\ UNCHANGED <<pool, built, admits, releases, obs, pc, wload, wzero, wbecame,
                   wadmit, wslept, extra>>

Next ==
    \/ \E s \in 0 .. MaxSize : Construct(s)
    \/ \E p \in Callers : CanAdmit(p)
    \/ \E p \in Callers : Admit(p)
    \/ \E p \in Callers : Release(p)
    \/ DrainCall
    \/ DrainPoll
    \/ DrainWake
    \/ DrainReturn

Spec == Init /\ [][Next]_vars

(* ---------------- callers following check-then-admit ------------------ *)

\* Caller p reads can_accept_work() and goes on to admit only if it was true.
ProtoCheck(p) ==
    /\ pc[p] = "idle"
    /\ DoCanAdmit(p)
    /\ pc' = [pc EXCEPT ![p] = IF can_accept_work(pool) THEN "ready" ELSE "idle"]
    /\ UNCHANGED extra

\* Caller p, having read true, calls increment_active() and starts its task.
ProtoAdmit(p) ==
    /\ pc[p] = "ready"
    /\ DoAdmit(p)
    /\ pc' = [pc EXCEPT ![p] = "working"]
    /\ UNCHANGED extra

\* Caller p's task finishes: decrement_active(), exactly once per admit.
ProtoRelease(p) ==
    /\ pc[p] = "working"
    /\ DoRelease(p)
    /\ pc' = [pc EXCEPT ![p] = "idle"]
    /\ UNCHANGED extra

NextProtocol ==
    \/ \E s \in 0 .. MaxSize : Construct(s)
    \/ \E p \in Callers : ProtoCheck(p)
    \/ \E p \in Callers : ProtoAdmit(p)
    \/ \E p \in Callers : ProtoRelease(p)
    \/ DrainCall
    \/ DrainPoll
    \/ DrainWake
    \/ DrainReturn

SpecProtocol == Init /\ [][NextProtocol]_vars

(* ------------------------- cloned handles ----------------------------- *)

\* The pool as seen through handle h, given the shared cell's owner `orig`.
View(h, orig) ==
    [size |-> h.size,
     active_workers |-> IF h.shared THEN orig.active_workers ELSE h.own]

\* The handles that exist: the views through every clone made so far.
CloneViews == {View(clones[p], pool) : p \in {q \in Callers : clones[q] # NoPool}}

\* Caller p clones the pool.
MakeClone(p) ==
    /\ Built
    /\ clones[p] = NoPool
    /\ clones' = [clones EXCEPT ![p] = clone(pool)]
    /\ UNCHANGED <<pool, built, admits, releases, obs, pc, waiter, used, last>>

\* The effect of a counter update `np` (the view after the method ran) made
\* through caller p's clone: on the shared cell, or on the clone's own.
StoreVia(p, np) ==
    IF clones[p].shared
    THEN /\ pool' = [pool EXCEPT !.active_workers = np.active_workers]
         /\ UNCHANGED clones
    ELSE /\ clones' = [clones EXCEPT ![p].own = np.active_workers]
         /\ UNCHANGED pool

\* Caller p calls increment_active() through its clone.
AdmitVia(p) ==
    /\ clones[p] # NoPool
    /\ admits < MaxAdmits
    /\ StoreVia(p, increment_active(View(clones[p], pool)))
    /\ admits' = admits + 1
    /\ used' = used \cup {p}
    /\ UNCHANGED <<built, releases, obs, pc, waiter, last>>

\* Caller p calls decrement_active() through its clone.
ReleaseVia(p) ==
    /\ clones[p] # NoPool
    /\ releases < MaxReleases
    /\ StoreVia(p, decrement_active(View(clones[p], pool)))
    /\ releases' = releases + 1
    /\ used' = used \cup {p}
    /\ UNCHANGED <<built, admits, obs, pc, waiter, last>>

\* The original handle and its clones in use side by side.
NextClones ==
    \/ \E s \in 0 .. MaxSize : Construct(s)
    \/ \E p \in Callers : MakeClone(p)
    \/ \E p \in Callers : AdmitVia(p)
    \/ \E p \in Callers : ReleaseVia(p)
    \/ \E p \in Callers : Admit(p)
    \/ \E p \in Callers : Release(p)

SpecClones == Init /\ [][NextClones]_vars

(* ------------------ the whole interface, with queries ----------------- *)

\* Callers run when no pending wait keeps the execution thread.
Runnable == ~occupies_thread(wpc)

\* Caller p calls size().
QSize(p) ==
    /\ Built
    /\ Runnable
    /\ last' = [op |-> "size", by |-> p, ret |-> size(pool), ok |-> TRUE]
    /\ UNCHANGED <<pool, built, admits, releases, obs, pc, waiter, clones, used>>

\* Caller p calls active_workers().
QActive(p) ==
    /\ Built
    /\ Runnable
    /\ last' = [op |-> "active_workers", by |-> p,
                ret |-> active_workers(pool), ok |-> TRUE]
    /\ UNCHANGED <<pool, built, admits, releases, obs, pc, waiter, clones, used>>

\* Caller p calls can_accept_work().
QCanAdmit(p) ==
    /\ Built
    /\ Runnable
    /\ last' = [op |-> "can_accept_work", by |-> p,
                ret |-> 0, ok |-> can_accept_work_call(pool).ret]
    /\ pool' = can_accept_work_call(pool).after
    /\ UNCHANGED <<built, admits, releases, obs, pc, waiter, clones, used>>

\* Caller p calls increment_active() / decrement_active().
QAdmit(p) == Runnable /\ Admit(p)
QRelease(p) == Runnable /\ Release(p)

NextQueries ==
    \/ \E s \in 0 .. MaxSize : Construct(s)
    \/ \E p \in Callers : QSize(p)
    \/ \E p \in Callers : QActive(p)
    \/ \E p \in Callers : QCanAdmit(p)
    \/ \E p \in Callers : QAdmit(p)
    \/ \E p \in Callers : QRelease(p)
    \/ DrainCall
    \/ DrainPoll
    \/ DrainWake
    \/ DrainReturn

SpecQueries == Init /\ [][NextQueries]_vars

(* ------------- a dispatcher that releases what it admits -------------- *)

\* Caller p admits a task; no admit is issued once the drain has been called.
DiscAdmit(p) ==
    /\ wpc = "idle"
    /\ pc[p] = "idle"
    /\ DoAdmit(p)
    /\ pc' = [pc EXCEPT ![p] = "working"]
    /\ UNCHANGED extra

NextDiscipline ==
    \/ \E s \in 0 .. MaxSize : Construct(s)
    \/ \E p \in Callers : DiscAdmit(p)
    \/ \E p \in Callers : ProtoRelease(p)
    \/ DrainCall
    \/ DrainPoll
    \/ DrainWake
    \/ DrainReturn

\* Every admitted task finishes and is released; the timer fires and the
\* runtime polls the waiting future again.
FairDiscipline ==
    /\ \A p \in Callers : WF_vars(ProtoRelease(p))
    /\ WF_vars(DrainPoll)
    /\ WF_vars(DrainWake)
    /\ WF_vars(DrainReturn)

SpecDiscipline == Init /\ [][NextDiscipline]_vars /\ FairDiscipline

(* -------------------- one sequential dispatcher ----------------------- *)

\* The dispatcher is caller 1: it reads the hint (ProtoCheck), admits right
\* after a true hint, and releases a task it admitted when the task finishes.
Dispatcher == 1

\* increment_active() immediately after can_accept_work() returned true.
SeqAdmit ==
    /\ pc[Dispatcher] = "ready"
    /\ DoAdmit(Dispatcher)
    /\ pc' = [pc EXCEPT ![Dispatcher] = "idle"]
    /\ UNCHANGED extra

\* decrement_active() for a task in flight: at most one per earlier admit,
\* and not between the dispatcher's check and its admit.
SeqRelease ==
    /\ pc[Dispatcher] = "idle"
    /\ releases < admits
    /\ DoRelease(Dispatcher)
    /\ UNCHANGED <<pc, extra>>

NextSequential ==
    \/ \E s \in 0 .. MaxSize : Construct(s)
    \/ ProtoCheck(Dispatcher)
    \/ SeqAdmit
    \/ SeqRelease
    \/ DrainCall
    \/ DrainPoll
    \/ DrainWake
    \/ DrainReturn

SpecSequential == Init /\ [][NextSequential]_vars

(* ------------------------------ claims -------------------------------- *)

\* C1: after k completed increment_active calls and j completed
\* decrement_active calls by any callers in any interleaving, with j <= k,
\* the counter equals exactly k - j: no increment or decrement is lost.
C1_CountExact ==
    Built => (releases <= admits => active_workers(pool) = admits - releases)

\* C1 witness: three admits and two releases have completed and the counter
\* holds the difference.
C1_Witness ==
    /\ Built
    /\ admits = 3
    /\ releases = 2
    /\ Active = 1

\* C2: new(0) fails with InvalidArg and creates no pool; new(s) with s > 0
\* succeeds, and the new pool has size s and, before any admit or release,
\* an active count of 0.
C2_Construct ==
    /\ built.status = "none" => pool = NoPool
    /\ built.status = "InvalidArg" => (built.arg = 0 /\ pool = NoPool)
    /\ built.status = "Ok" =>
          /\ built.arg > 0
          /\ Built
          /\ size(pool) = built.arg
          /\ (admits = 0 /\ releases = 0 => active_workers(pool) = 0)

\* C2 witness: new(0) was rejected, then new(MaxSize) built a fresh pool.
C2_Witness ==
    /\ built.rejected
    /\ built.status = "Ok"
    /\ built.arg = MaxSize
    /\ Built
    /\ admits = 0
    /\ releases = 0
    /\ Active = 0

\* C3: can_accept_work returns true exactly when the counter, at the instant
\* of the read, is strictly less than size.
C3_CanAdmitIffBelow ==
    \A p \in Callers :
        obs[p].valid => (obs[p].ret <=> obs[p].active < pool.size)

\* C3 witness: size 2; caller 2 read false after two admits, caller 1 read
\* true again after one release.
C3_Witness ==
    /\ Built
    /\ pool.size = 2
    /\ admits = 2
    /\ releases = 1
    /\ obs[2] = [valid |-> TRUE, ret |-> FALSE, active |-> 2]
    /\ obs[1] = [valid |-> TRUE, ret |-> TRUE, active |-> 1]

\* C4: callers that admit only after reading can_accept_work() = true each
\* saw the counter below size at their read, and still the counter can exceed
\* size (the witness): the check and the increment are separate steps.
C4_AdmittedSawRoom ==
    \A p \in Callers :
        pc[p] \in {"ready", "working"} =>
            /\ obs[p].valid
            /\ obs[p].ret
            /\ obs[p].active < pool.size

\* C4 witness: size 1, two callers both read true at count 0, both admitted:
\* the counter is 2, above size.
C4_Witness ==
    /\ Built
    /\ pool.size = 1
    /\ \A p \in {1, 2} : pc[p] = "working" /\ obs[p].ret /\ obs[p].active = 0
    /\ Active = 2

\* C5: wait_for_completion leaves its loop, and returns, only after its own
\* load read 0, an instant within the call at which the counter was 0.
C5_ReturnAfterZeroRead ==
    wpc \in {"exit", "done"} => (wload = 0 /\ wzero)

\* C5 witness: a call that was pending while the counter became 0 read 0
\* and has returned.
C5_Witness ==
    /\ wpc = "done"
    /\ wbecame
    /\ wload = 0
    /\ admits >= 1

\* C6: if the counter never reaches 0 from some instant of a pending
\* wait_for_completion call on, the call never returns: it has no exit but a
\* load that reads 0.
C6_NoReturnWhileNonzero ==
    [](((wpc \in {"check", "sleep"}) /\ [](Built => Active # 0))
          => [](wpc \notin {"exit", "done"}))

\* C6 witness: one admit whose release never came; the waiter has polled,
\* read a nonzero counter and sleeps, and the counter was never 0 in the call.
C6_Witness ==
    /\ wpc = "sleep"
    /\ ~wzero
    /\ wload = 1
    /\ admits = 1
    /\ releases = 0
    /\ Active = 1

\* C7 as stated: at the moment wait_for_completion returns the counter is 0,
\* whatever increment_active / decrement_active calls interleave with the wait.
C7_Original ==
    [][DrainReturn => Active' = 0]_vars

\* C7 amended: once wait_for_completion has returned, the counter is 0 and
\* every admit has been released, provided no increment_active was issued
\* after the call started and releases never outnumber admits.
C7_DrainedIfNoLateAdmit ==
    (wpc = "done" /\ ~wadmit /\ releases <= admits)
        => (Active = 0 /\ admits = releases)

\* C7 witness: admitted work was released while the wait was pending, no
\* admit came after the call, and the call has returned.
C7_Witness ==
    /\ wpc = "done"
    /\ ~wadmit
    /\ wbecame
    /\ admits = 2
    /\ releases = 2
    /\ Active = 0

\* C8: a completed increment_active call adds exactly one to the counter (in
\* the word's arithmetic) whatever its value, also at or above size, and
\* changes nothing else of the pool; it does not read size.
C8_AdmitUnconditional ==
    [][admits' = admits + 1 =>
          pool' = [pool EXCEPT !.active_workers = (@ + 1) % Modulus]]_vars

\* C8 witness: only admits so far, and they took the counter above size.
C8_Witness ==
    /\ Built
    /\ releases = 0
    /\ admits = MaxAdmits
    /\ Active = MaxAdmits
    /\ Active > pool.size

\* C9 as stated: more releases than admits leave the counter negative.
C9_Original ==
    (Built /\ releases > admits) => Active < 0

\* C9 amended: the counter is an unsigned word and is never negative; more
\* releases than admits wrap it, to 2^w - (releases - admits), so a release at
\* 0 leaves 2^w - 1.
C9_ReleaseWraps ==
    Built =>
        /\ Active >= 0
        /\ Active <= MaxWord
        /\ (releases > admits => Active = Modulus - (releases - admits))

\* C9 witness: one release on a fresh pool left the counter at 2^w - 1.
C9_Witness ==
    /\ Built
    /\ admits = 0
    /\ releases = 1
    /\ Active = MaxWord

\* C10 as stated: whenever the counter became 0 while the call was pending,
\* the waiter's next poll ends the wait, whatever other callers do meanwhile.
C10_Original ==
    [][(wpc = "check" /\ wpc' # "check" /\ wbecame) => wpc' = "exit"]_vars

\* C10 amended: when the counter became 0 while the call was pending and is 0
\* at the waiter's next poll, that poll ends the wait.
C10_DetectedAtNextPoll ==
    [][(wpc = "check" /\ wpc' # "check" /\ wbecame /\ Active = 0)
          => wpc' = "exit"]_vars

\* C10 witness: the counter became 0 while the call was pending, and the
\* waiter's next poll read 0 and left the loop.
C10_Witness ==
    /\ wpc = "exit"
    /\ wbecame
    /\ wload = 0
    /\ admits = 1
    /\ releases = 1

\* C11: every handle obtained by cloning refers to the one shared counter and
\* the same size: after any admits and releases through any mix of handles,
\* size(), active_workers() and can_accept_work() agree on all of them.
C11_ClonesShareCounter ==
    Built =>
        \A h \in CloneViews :
            /\ size(h) = size(pool)
            /\ active_workers(h) = active_workers(pool)
            /\ can_accept_work(h) = can_accept_work(pool)

\* C11 witness: two clones exist, both carried an update, and with the
\* counter at size the hint is false through every handle.
C11_Witness ==
    /\ Built
    /\ \A p \in {1, 2} : clones[p] # NoPool
    /\ used = {1, 2}
    /\ admits = 3
    /\ releases = 1
    /\ pool.size = 2
    /\ \A h \in CloneViews : active_workers(h) = 2 /\ ~can_accept_work(h)

\* C12: size is immutable: after any sequence of size, active_workers,
\* can_accept_work, increment_active, decrement_active and
\* wait_for_completion steps, size() is the value passed to new(), and so is
\* every value a size() call returned.
C12_SizeImmutable ==
    Built =>
        /\ size(pool) = built.arg
        /\ (last.op = "size" => last.ret = built.arg)

\* C12 witness: after all the admits the bound allows, a release and a
\* completed wait, size() returned the constructor's argument.
C12_Witness ==
    /\ Built
    /\ built.arg = MaxSize
    /\ admits = MaxAdmits
    /\ releases >= 1
    /\ wpc = "done"
    /\ last.op = "size"
    /\ last.ret = MaxSize

\* C13: a pending wait_for_completion with a nonzero counter blocks no other
\* caller: size, active_workers, can_accept_work, increment_active and
\* decrement_active stay enabled (each is one step), so the releases the wait
\* needs can happen.
C13_PendingWaitBlocksNobody ==
    (wpc \in {"check", "sleep"} /\ Active > 0) =>
        \A p \in Callers :
            /\ ENABLED QSize(p)
            /\ ENABLED QActive(p)
            /\ ENABLED QCanAdmit(p)
            /\ (admits < MaxAdmits => ENABLED QAdmit(p))
            /\ (releases < MaxReleases => ENABLED QRelease(p))

\* C13 witness: the waiter sleeps on a nonzero counter; since the call
\* started an admit completed, and caller 2 has just queried the hint.
C13_Witness ==
    /\ wpc = "sleep"
    /\ Active > 0
    /\ wadmit
    /\ last.op = "can_accept_work"
    /\ last.by = 2

\* C15: the queries are read-only: a step of size, active_workers or
\* can_accept_work (it sets `last`) or of wait_for_completion (it moves wpc)
\* leaves the counter as it was; a true hint reserves nothing.
C15_QueriesReadOnly ==
    [][((last' # last \/ wpc' # wpc) /\ Built)
          => active_workers(pool') = active_workers(pool)]_vars

\* C15 witness: with one slot of two in use and a wait pending,
\* can_accept_work returned true and the counter is still 1.
C15_Witness ==
    /\ Built
    /\ pool.size = 2
    /\ admits = 1
    /\ releases = 0
    /\ wpc = "sleep"
    /\ last.op = "can_accept_work"
    /\ last.ok
    /\ Active = 1

\* C14: when every admit is followed by its one release and no admit is
\* issued after wait_for_completion was called, then, under weak fairness of
\* the release and poll steps, a called wait_for_completion returns.
C14_DrainReturns ==
    (wpc # "idle") ~> (wpc = "done")

\* C14 witness: the wait was called with work in flight, slept, and returned
\* after the releases.
C14_Witness ==
    /\ wpc = "done"
    /\ wslept
    /\ admits = 2
    /\ releases = 2
    /\ Active = 0

\* C16: with one sequential dispatcher that admits only right after a true
\* can_accept_work() and releases at most once per admit, the counter stays
\* within 0 .. size.
C16_SequentialWithinSize ==
    Built => (0 <= Active /\ Active <= size(pool))

\* C16 witness: the dispatcher filled a pool of size 2, after a release and
\* a re-admit, and its latest check at count 2 returned false.
C16_Witness ==
    /\ Built
    /\ pool.size = 2
    /\ admits = 3
    /\ releases = 1
    /\ Active = 2
    /\ obs[Dispatcher] = [valid |-> TRUE, ret |-> FALSE, active |-> 2]

\* C17: the counter is an unsigned word with wrapping arithmetic: a
\* decrement_active at 0 sets it to 2^w - 1, where can_accept_work is false
\* and the loop of wait_for_completion keeps waiting; an increment_active at
\* 2^w - 1 wraps it back to 0.
C17_UnsignedWrap ==
    [][/\ (Built /\ Active = 0 /\ releases' = releases + 1) =>
              /\ Active' = MaxWord
              /\ ~can_accept_work(pool')
              /\ wait_loop_cond(active_workers(pool'))
       /\ (Built /\ Active = MaxWord /\ admits' = admits + 1) =>
              /\ Active' = 0
              /\ ~wait_loop_cond(active_workers(pool'))]_vars

\* C17 witness: a release on a fresh pool wrapped the counter; a hint read
\* false at 2^w - 1, the waiter read 2^w - 1 and slept, and only after the
\* compensating admit did it read 0 and return.
C17_Witness ==
    /\ wpc = "done"
    /\ wslept
    /\ wadmit
    /\ admits = 1
    /\ releases = 1
    /\ Active = 0
    /\ obs[1] = [valid |-> TRUE, ret |-> FALSE, active |-> MaxWord]

\* C18: a wait_for_completion call starts at the loop test, and a first test
\* that reads 0 leaves the loop without any sleep: on a counter at 0, such as
\* a fresh pool's, the call returns at once.
C18_NoSleepWhenDrained ==
    /\ [][(wpc = "idle" /\ wpc' # "idle") => (wpc' = "check" /\ ~wslept')]_vars
    /\ [][(wpc = "check" /\ ~wslept /\ Active = 0 /\ wpc' # "check")
             => (wpc' = "exit" /\ ~wslept')]_vars

\* C18 witness: wait_for_completion on a freshly constructed pool has
\* returned without having slept.
C18_Witness ==
    /\ wpc = "done"
    /\ ~wslept
    /\ admits = 0
    /\ releases = 0
    /\ wload = 0
    /\ Active = 0

====
